---- MODULE Spec2Model ----
(***************************************************************************)
(* The blob-transaction tracker of core/eth/subscribe_blobs.go: the select *)
(* loop of main over the pending-transaction stream, the new-head stream   *)
(* and the two subscription error signals, with the pending map, the       *)
(* admission-time map, the current blob base fee, the four record lists    *)
(* and the four files they are saved to.                                   *)
(*                                                                         *)
(* One action is one case body of the select, run to its end; Loop is the  *)
(* return to the select, where the locals of the iteration (the event, the *)
(* node's answers, the counters of the head case) go out of scope.         *)
(*                                                                         *)
(* The node is not constrained: at every head each receipt lookup may fail *)
(* or return a receipt in this block or in the one before, and each nonce  *)
(* lookup may fail or return the account's nonce.  The stream may deliver  *)
(* any transaction at any time, also one it has delivered before.          *)
(*                                                                         *)
(* Time is counted in ticks of the clock; one case body runs within one    *)
(* tick.  Amounts are in wei; a Gwei field holds the exact quotient        *)
(* wei / GWei as the pair [num, den].  The header's BaseFee, Time and      *)
(* Extra fields and the transaction's gas limit and gas fee cap are only   *)
(* copied into records and decide no branch; they are left out.            *)
(*                                                                         *)
(* Spec is one run of the loop in which every save succeeds.  SpecRestart  *)
(* adds a new start of the program after an error case; SpecRuns adds the  *)
(* log.Fatal exits of main (a save, a load or ec.ChainID failing) as well. *)
(* SpecSignals has the error signals fired by the subscriptions before the *)
(* loop receives them, with the fairness of the select.  SpecChain runs    *)
(* the loop against a node that answers from one chain.  SpecFees adds     *)
(* the heads whose blob fee is beyond the uint64 field.  SpecShutdown      *)
(* takes the statements of an error case one at a time, between the sends  *)
(* of the subscriptions on the two channels.                               *)
(***************************************************************************)
EXTENDS Integers, Sequences, FiniteSets, TLC

\* ---------------------------------------------------------------- bounds
MaxEvents    == 3      \* admissions and heads recorded in the files
MaxTime      == 1      \* clock ticks

\* ------------------------------------------------------ program constants
BlobTxType       == 3            \* gethtypes.BlobTxType
DynamicFeeTxType == 2            \* gethtypes.DynamicFeeTxType
GWei             == 1000000000   \* params.GWei
MinBlobGasprice  == 1            \* params.BlobTxMinBlobGasprice
\* params.BlobTxBlobGaspriceUpdateFraction is 3338477; the fee curve is kept
\* and its scale reduced so that a few units of excess gas move the fee.
BlobGaspriceUpdateFraction == 2
\* BlockData.BlobBaseFeeWei is a uint64; the word is scaled with the fee curve.
UintBits == 4

\* ------------------------------------------------------------ transactions
\* The transactions the stream can deliver, by hash.  senderErr: the
\* signature does not recover under the Cancun signer of the chain id.
Hashes == 1 .. 4

Tx ==
  [hash \in Hashes |->
     CASE hash = 1 -> [Type |-> BlobTxType, senderErr |-> FALSE, From |-> "X",
                       Nonce |-> 0, BlobGasFeeCap |-> 2, BlobHashes |-> 2,
                       GasTipCap |-> 3]
       [] hash = 2 -> [Type |-> BlobTxType, senderErr |-> FALSE, From |-> "X",
                       Nonce |-> 1, BlobGasFeeCap |-> 1, BlobHashes |-> 1,
                       GasTipCap |-> 1]
       [] hash = 3 -> [Type |-> BlobTxType, senderErr |-> TRUE, From |-> "",
                       Nonce |-> 0, BlobGasFeeCap |-> 6, BlobHashes |-> 1,
                       GasTipCap |-> 2]
       [] OTHER    -> [Type |-> DynamicFeeTxType, senderErr |-> FALSE,
                       From |-> "X", Nonce |-> 1, BlobGasFeeCap |-> 0,
                       BlobHashes |-> 0, GasTipCap |-> 2]]

\* The zero values of Go.
ZeroHash    == 0
ZeroAddress == ""
ZeroTime    == 0

ToGwei(wei) == [num |-> wei, den |-> GWei]

\* gethtypes.Sender(gethtypes.NewCancunSigner(chainID), tx)
Sender(hash) ==
  IF Tx[hash].senderErr THEN [err |-> TRUE, acc |-> ZeroAddress]
  ELSE [err |-> FALSE, acc |-> Tx[hash].From]

\* ------------------------------------------------------------- blob base fee
\* eip4844.CalcBlobFee = fakeExponential(MinBlobGasprice, excess, fraction)
RECURSIVE fakeExponentialLoop(_, _, _, _, _)
fakeExponentialLoop(output, accum, numerator, denominator, i) ==
  IF accum > 0
  THEN fakeExponentialLoop(output + accum,
                           (accum * numerator) \div (denominator * i),
                           numerator, denominator, i + 1)
  ELSE output \div denominator

fakeExponential(factor, numerator, denominator) ==
  fakeExponentialLoop(0, factor * denominator, numerator, denominator, 1)

CalcBlobFee(excessBlobGas) ==
  fakeExponential(MinBlobGasprice, excessBlobGas, BlobGaspriceUpdateFraction)

\* ------------------------------------------------------------------- records
\* txData(tx, chainID)
txData(hash) ==
  IF Sender(hash).err
  THEN [TxHash |-> ZeroHash, BlobGasFeeCapGwei |-> ToGwei(0), BlobCount |-> 0,
        GasTipCapGwei |-> ToGwei(0), Account |-> ZeroAddress]
  ELSE [TxHash |-> hash,
        BlobGasFeeCapGwei |-> ToGwei(Tx[hash].BlobGasFeeCap),
        BlobCount |-> Tx[hash].BlobHashes,
        GasTipCapGwei |-> ToGwei(Tx[hash].GasTipCap),
        Account |-> Sender(hash).acc]

\* recordTxMetrics appending to a new slice instead of the list it is given.
recordTxMetricsFresh(list, hash, t) ==
  IF Sender(hash).err THEN list
  ELSE <<[Account |-> Sender(hash).acc, BlobCount |-> Tx[hash].BlobHashes,
          BlobGasFeeCap |-> Tx[hash].BlobGasFeeCap, TxTime |-> t]>>

\* recordTxMetrics(txMetricsList, tx, chainID, txTime)
recordTxMetrics(list, hash, t) ==
  IF Sender(hash).err THEN list
  ELSE Append(list, [Account |-> Sender(hash).acc,
                     BlobCount |-> Tx[hash].BlobHashes,
                     BlobGasFeeCap |-> Tx[hash].BlobGasFeeCap,
                     TxTime |-> t])

\* The record recordTxInclusion builds.
TxInclusionData(hash, inclusionDelay) ==
  [Account |-> Sender(hash).acc,
   BlobCount |-> Tx[hash].BlobHashes,
   InclusionDelay |-> inclusionDelay,
   GasTipGwei |-> ToGwei(Tx[hash].GasTipCap)]

\* recordTxInclusion(txInclusionList, tx, chainID, inclusionDelay)
recordTxInclusion(list, hash, inclusionDelay) ==
  IF Sender(hash).err THEN list
  ELSE Append(list, TxInclusionData(hash, inclusionDelay))

\* ------------------------------------------------------------------ the state
VARIABLES
  pc,               \* "select": at the select; "iterated": a case body has
                    \* run; "done": main returned
  now,              \* the clock
  pendingTxs,       \* keys of the pendingTxs map (the value is Tx[key])
  txTime,           \* the txTime map, hash -> admission time
  currBaseFee,      \* currBaseFee
  txDataList, blockDataList, txMetricsList, txInclusionList,
  files,            \* content of the four files under dataFolder
  saves,            \* number of saveDataToFile calls, per file
  pSub, hSub,       \* the two subscriptions: "active", "ended", and, where
                    \* the signals and deliveries are modelled, "failed",
                    \* "sending", "quit"
  ev,               \* the event of this iteration of the loop (tx or h),
                    \* with what the node answered while it was handled
  pass,             \* the locals of the head case and what its body logged
  logIncluded,      \* hashes logged "Transaction was included in block"
  logReplaced       \* hashes logged "Transaction has been successfully
                    \* replaced"

vars == <<pc, now, pendingTxs, txTime, currBaseFee, txDataList, blockDataList,
          txMetricsList, txInclusionList, files, saves, pSub, hSub, ev,
          pass, logIncluded, logReplaced>>

FileNames == {"txData", "blockData", "txMetrics", "txInclusion"}

\* encoder.Encode(data) of a list: a nil slice is written as null, any
\* other as the array of its records.
JSONNull == [json |-> "null"]
JSONEncode(list) ==
  IF Len(list) = 0 THEN JSONNull ELSE [json |-> "array", items |-> list]

\* json.Unmarshal(byteValue, &data) into a nil slice: null leaves it nil.
JSONDecode(doc) ==
  IF doc.json = "array" THEN doc.items ELSE <<>>

\* A file that does not exist.
Absent == [exists |-> FALSE, data |-> JSONNull]

\* saveDataToFile with the encoder never run: the file is created empty.
saveDataToFileCreatesOnly(fs, name, data) ==
  [fs EXCEPT ![name] = [exists |-> TRUE, data |-> JSONNull]]

\* saveDataToFile(filename, data): the file is created anew and holds the
\* encoding of data.
saveDataToFile(fs, name, data) ==
  [fs EXCEPT ![name] = [exists |-> TRUE, data |-> JSONEncode(data)]]

\* loadDataFromFile never reading: every run starts from nil lists.
loadDataFromFileNothing(fs, name) == <<>>

\* loadDataFromFile(filename): the file's list, nil when there is no file.
loadDataFromFile(fs, name) ==
  IF fs[name].exists THEN JSONDecode(fs[name].data) ELSE <<>>

CountSave(sv, name) == [sv EXCEPT ![name] = @ + 1]

\* The map m without key k (delete(m, k)).
Delete(m, k) == [x \in DOMAIN m \ {k} |-> m[x]]

\* m[k] of a Go map: the zero value when k is not a key.
TimeOf(m, k) == IF k \in DOMAIN m THEN m[k] ELSE ZeroTime

NoEvent == [kind |-> "none"]
NoPass  == [head |-> ZeroHash]

\* What a previous run of the program left in dataFolder.
PreviousRuns ==
  { [n \in FileNames |-> Absent],
    [n \in FileNames |->
       [exists |-> TRUE,
        data |-> IF n = "blockData"
                 THEN JSONEncode(<<[BlockHash |-> 1, BlockNumber |-> 1,
                                    BlobBaseFeeWei |-> 1]>>)
                 ELSE JSONNull]] }

Init ==
  /\ pc = "select"
  /\ now = 0
  /\ currBaseFee = 0
  /\ pendingTxs = {}
  /\ txTime = << >>
  /\ files \in PreviousRuns
  /\ txDataList = loadDataFromFile(files, "txData")
  /\ blockDataList = loadDataFromFile(files, "blockData")
  /\ txMetricsList = loadDataFromFile(files, "txMetrics")
  /\ txInclusionList = loadDataFromFile(files, "txInclusion")
  /\ saves = [n \in FileNames |-> 0]
  /\ pSub = "active"
  /\ hSub = "active"
  /\ ev = NoEvent
  /\ pass = NoPass
  /\ logIncluded = {}
  /\ logReplaced = {}

\* ------------------------------------------------------------ the tx stream
\* Mutant of IsBlobTx: the type test lets every typed transaction through.
IsBlobTxAnyType(hash) == Tx[hash].Type >= DynamicFeeTxType

\* if tx.Type() == gethtypes.BlobTxType
IsBlobTx(hash) == Tx[hash].Type = BlobTxType

\* The records a run may still add within the bound.
Room == Len(txDataList) + Len(blockDataList) < MaxEvents

\* case tx := <-txChan
TxEvent(hash) ==
  /\ pc = "select"
  /\ IF IsBlobTx(hash)
     THEN /\ Room
          /\ txTime' = [x \in DOMAIN txTime \cup {hash} |->
                          IF x = hash THEN now ELSE txTime[x]]
          /\ txMetricsList' = recordTxMetrics(txMetricsList, hash, now)
          /\ pendingTxs' = pendingTxs \cup {hash}
          /\ txDataList' = Append(txDataList, txData(hash))
          /\ files' = saveDataToFile(
                        saveDataToFile(files, "txData", txDataList'),
                        "txMetrics", txMetricsList')
          /\ saves' = CountSave(CountSave(saves, "txData"), "txMetrics")
     ELSE UNCHANGED <<txTime, txMetricsList, pendingTxs, txDataList, files,
                      saves>>
  /\ ev' = [kind |-> "tx", hash |-> hash]
  /\ pc' = "iterated"
  /\ UNCHANGED <<now, currBaseFee, blockDataList, txInclusionList, pSub,
                 hSub, pass, logIncluded, logReplaced>>

\* ---------------------------------------------------------- the head stream
Nil == -1      \* h.ExcessBlobGas == nil
ExcessBlobGasValues == {Nil, 0, 4}

\* The header the head stream delivers next: heads come in block order and
\* the block's hash names it.
NewHeader(excess) ==
  [Hash |-> Len(blockDataList) + 1, Number |-> Len(blockDataList) + 1,
   ExcessBlobGas |-> excess]

\* What ec.TransactionReceipt can return for a pending hash at head h: an
\* error (ethereum.NotFound when the node has no receipt, or a failed call),
\* or a receipt in the block before h or in h.
ReceiptErr == [err |-> TRUE, BlockHash |-> ZeroHash]
ReceiptAnswers(h) ==
  {ReceiptErr}
    \cup {[err |-> FALSE, BlockHash |-> b] : b \in {h.Hash - 1, h.Hash}}

\* Variant: every receipt the node returns counts as one of the head.
ReceiptInHeadAny(r, h) == ~r.err

\* err == nil && r.BlockHash == h.Hash()
ReceiptInHead(r, h) == ~r.err /\ r.BlockHash = h.Hash

\* The account nonces the node can report: from below every transaction's
\* nonce to above every one.
Nonces == 0 .. (CHOOSE n \in {Tx[x].Nonce : x \in Hashes} :
                   \A x \in Hashes : Tx[x].Nonce <= n) + 1

\* What ec.NonceAtHash can return in one pass for the transactions in asked:
\* an error, or the account's nonce at the head, the same for one account.
NonceErr == [err |-> TRUE, nonce |-> 0]
NonceAnswers(asked) ==
  UNION { { [x \in asked |-> IF x \in failed THEN NonceErr
                             ELSE [err |-> FALSE, nonce |-> n]]
            : failed \in SUBSET asked }
          : n \in Nonces }

\* The orders in which range can produce the keys of the map.
Orders(S) ==
  {o \in [1 .. Cardinality(S) -> S] :
     \A i, j \in DOMAIN o : o[i] = o[j] => i = j}

\* Mutants of IsReplaced: "<=" and ">" written for "<".
IsReplacedLe(txNonce, currNonce) == txNonce <= currNonce
IsReplacedGt(txNonce, currNonce) == txNonce > currNonce

\* if tx.Nonce() < currNonce
IsReplaced(txNonce, currNonce) == txNonce < currNonce

\* Mutant of IsViable: "> 0" written for ">= 0".
IsViableStrict(blobGasFeeCap, baseFee) == blobGasFeeCap > baseFee

\* if tx.BlobGasFeeCap().Cmp(currBaseFee) >= 0
IsViable(blobGasFeeCap, baseFee) == blobGasFeeCap >= baseFee

\* The included branch with the delay taken the wrong way round: admission
\* time minus the time of the pass.
IncludedDelayReversed(st, hash, t) ==
  LET list == recordTxInclusion(st.txInclusionList, hash,
                                TimeOf(st.txTime, hash) - t)
  IN [st EXCEPT !.txInclusionList = list,
                !.blobsIncluded = @ + Tx[hash].BlobHashes,
                !.pendingTxs = @ \ {hash},
                !.txTime = Delete(@, hash),
                !.files = saveDataToFile(@, "txInclusion", list),
                !.saves = CountSave(@, "txInclusion"),
                !.included = @ \cup {hash}]

\* Variant: the included branch deletes from pendingTxs only.
IncludedKeepsTime(st, hash, t) ==
  LET list == recordTxInclusion(st.txInclusionList, hash,
                                t - TimeOf(st.txTime, hash))
  IN [st EXCEPT !.txInclusionList = list,
                !.blobsIncluded = @ + Tx[hash].BlobHashes,
                !.pendingTxs = @ \ {hash},
                !.files = saveDataToFile(@, "txInclusion", list),
                !.saves = CountSave(@, "txInclusion"),
                !.included = @ \cup {hash}]

\* The included branch of the loop body.
Included(st, hash, t) ==
  LET list == recordTxInclusion(st.txInclusionList, hash,
                                t - TimeOf(st.txTime, hash))
  IN [st EXCEPT !.txInclusionList = list,
                !.blobsIncluded = @ + Tx[hash].BlobHashes,
                !.pendingTxs = @ \ {hash},
                !.txTime = Delete(@, hash),
                !.files = saveDataToFile(@, "txInclusion", list),
                !.saves = CountSave(@, "txInclusion"),
                !.included = @ \cup {hash}]

\* Mutant of Replaced: the entry is logged as replaced and left in the maps.
ReplacedNotDeleted(st, hash) ==
  [st EXCEPT !.replaced = @ \cup {hash}]

\* Variant: the replaced branch also appends an inclusion record.
ReplacedWithRecord(st, hash) ==
  [st EXCEPT !.pendingTxs = @ \ {hash},
             !.txTime = Delete(@, hash),
             !.txInclusionList = recordTxInclusion(@, hash, 0),
             !.replaced = @ \cup {hash}]

\* The replaced branch of the loop body.
Replaced(st, hash) ==
  [st EXCEPT !.pendingTxs = @ \ {hash},
             !.txTime = Delete(@, hash),
             !.replaced = @ \cup {hash}]

\* The viable branch of the loop body.
Viable(st, hash) ==
  [st EXCEPT !.viabletxs = @ + 1,
             !.viableBlobs = @ + Tx[hash].BlobHashes,
             !.viable = @ \cup {hash}]

\* Mutant of ScanStep: the error of NonceAtHash is not checked.
ScanStepNonceErrIgnored(st, hash, h, baseFee, receipt, nonceAt, t) ==
  IF ReceiptInHead(receipt[hash], h) THEN Included(st, hash, t)
  ELSE IF Sender(hash).err THEN st
  ELSE IF IsReplaced(Tx[hash].Nonce, nonceAt[hash].nonce)
       THEN Replaced(st, hash)
  ELSE IF Tx[hash].Nonce # nonceAt[hash].nonce THEN st
  ELSE IF IsViable(Tx[hash].BlobGasFeeCap, baseFee) THEN Viable(st, hash)
  ELSE st

\* Mutant of ScanStep: the test "tx.Nonce() != currNonce" is missing.
ScanStepNoBlockedTest(st, hash, h, baseFee, receipt, nonceAt, t) ==
  IF ReceiptInHead(receipt[hash], h) THEN Included(st, hash, t)
  ELSE IF Sender(hash).err THEN st
  ELSE IF nonceAt[hash].err THEN st
  ELSE IF IsReplaced(Tx[hash].Nonce, nonceAt[hash].nonce)
       THEN Replaced(st, hash)
  ELSE IF IsViable(Tx[hash].BlobGasFeeCap, baseFee) THEN Viable(st, hash)
  ELSE st

\* The loop body dropping an entry that is next in nonce order and cannot
\* pay the base fee.
ScanStepEvictsNotViable(st, hash, h, baseFee, receipt, nonceAt, t) ==
  IF ReceiptInHead(receipt[hash], h) THEN Included(st, hash, t)
  ELSE IF Sender(hash).err THEN st
  ELSE IF nonceAt[hash].err THEN st
  ELSE IF IsReplaced(Tx[hash].Nonce, nonceAt[hash].nonce)
       THEN Replaced(st, hash)
  ELSE IF Tx[hash].Nonce # nonceAt[hash].nonce THEN st
  ELSE IF IsViable(Tx[hash].BlobGasFeeCap, baseFee) THEN Viable(st, hash)
  ELSE [st EXCEPT !.pendingTxs = @ \ {hash}, !.txTime = Delete(@, hash)]

\* One iteration of "for hash, tx := range pendingTxs" at head h and time t.
ScanStep(st, hash, h, baseFee, receipt, nonceAt, t) ==
  IF ReceiptInHead(receipt[hash], h) THEN Included(st, hash, t)
  ELSE IF Sender(hash).err THEN st
  ELSE IF nonceAt[hash].err THEN st
  ELSE IF IsReplaced(Tx[hash].Nonce, nonceAt[hash].nonce)
       THEN Replaced(st, hash)
  ELSE IF Tx[hash].Nonce # nonceAt[hash].nonce THEN st
  ELSE IF IsViable(Tx[hash].BlobGasFeeCap, baseFee) THEN Viable(st, hash)
  ELSE st

\* The range loop losing the key that follows a deleted one.
RECURSIVE ScanSkipsAfterRemoval(_, _, _, _, _, _, _)
ScanSkipsAfterRemoval(order, st, h, baseFee, receipt, nonceAt, t) ==
  IF order = <<>> THEN st
  ELSE LET nxt == IF Head(order) \in st.pendingTxs
                  THEN ScanStep(st, Head(order), h, baseFee, receipt,
                                nonceAt, t)
                  ELSE st
           rest == IF nxt.pendingTxs # st.pendingTxs /\ Len(order) > 1
                   THEN Tail(Tail(order)) ELSE Tail(order)
       IN ScanSkipsAfterRemoval(rest, nxt, h, baseFee, receipt, nonceAt, t)

\* The range loop leaving at the first included entry (break for continue).
RECURSIVE ScanBreaksOnIncluded(_, _, _, _, _, _, _)
ScanBreaksOnIncluded(order, st, h, baseFee, receipt, nonceAt, t) ==
  IF order = <<>> THEN st
  ELSE LET nxt == IF Head(order) \in st.pendingTxs
                  THEN ScanStep(st, Head(order), h, baseFee, receipt,
                                nonceAt, t)
                  ELSE st
       IN IF nxt.included # st.included THEN nxt
          ELSE ScanBreaksOnIncluded(Tail(order), nxt, h, baseFee, receipt,
                                    nonceAt, t)

\* The range loop: a key deleted before it is reached is not produced.
RECURSIVE Scan(_, _, _, _, _, _, _)
Scan(order, st, h, baseFee, receipt, nonceAt, t) ==
  IF order = <<>> THEN st
  ELSE Scan(Tail(order),
            IF Head(order) \in st.pendingTxs
            THEN ScanStep(st, Head(order), h, baseFee, receipt, nonceAt, t)
            ELSE st,
            h, baseFee, receipt, nonceAt, t)

\* currBaseFee.Uint64()
Uint64(x) == x % (2 ^ UintBits)

\* The base fee update taking a header without excess as one with excess 0.
NewBaseFeeNilAsZero(h, fee) ==
  IF h.ExcessBlobGas # Nil THEN CalcBlobFee(h.ExcessBlobGas)
  ELSE CalcBlobFee(0)

\* The base fee update forgetting the fee when the header has no excess.
NewBaseFeeResets(h, fee) ==
  IF h.ExcessBlobGas # Nil THEN CalcBlobFee(h.ExcessBlobGas) ELSE 0

\* currBaseFee after "if h.ExcessBlobGas != nil { currBaseFee = ... }"
NewBaseFee(h, fee) ==
  IF h.ExcessBlobGas # Nil THEN CalcBlobFee(h.ExcessBlobGas) ELSE fee

\* blockData with the block number cut to its lowest bit.
BlockDataNumberCut(h, baseFee) ==
  [BlockHash |-> h.Hash, BlockNumber |-> h.Number % 2,
   BlobBaseFeeWei |-> Uint64(baseFee)]

\* blockData := BlockData{...}
BlockData(h, baseFee) ==
  [BlockHash |-> h.Hash, BlockNumber |-> h.Number,
   BlobBaseFeeWei |-> Uint64(baseFee)]

\* The head case with a tx case running beside it: transaction 1 is put
\* into the maps while the range loop is under way.
PassResultWithAdmission(order, h, receipt, nonceAt) ==
  LET baseFee == NewBaseFee(h, currBaseFee)
      blocks == Append(blockDataList, BlockData(h, baseFee))
      st0 == [pendingTxs |-> pendingTxs, txTime |-> txTime,
              txInclusionList |-> txInclusionList,
              files |-> saveDataToFile(files, "blockData", blocks),
              saves |-> CountSave(saves, "blockData"),
              blobsIncluded |-> 0, viabletxs |-> 0, viableBlobs |-> 0,
              included |-> {}, replaced |-> {}, viable |-> {}]
      st == Scan(order, st0, h, baseFee, receipt, nonceAt, now)
  IN [st EXCEPT !.pendingTxs = @ \cup {1},
                !.txTime = [x \in DOMAIN @ \cup {1} |->
                              IF x = 1 THEN now ELSE @[x]]]

\* The head case scanning with the fee left by the head before.
PassResultStaleFee(order, h, receipt, nonceAt) ==
  LET blocks == Append(blockDataList, BlockData(h, currBaseFee))
      st0 == [pendingTxs |-> pendingTxs, txTime |-> txTime,
              txInclusionList |-> txInclusionList,
              files |-> saveDataToFile(files, "blockData", blocks),
              saves |-> CountSave(saves, "blockData"),
              blobsIncluded |-> 0, viabletxs |-> 0, viableBlobs |-> 0,
              included |-> {}, replaced |-> {}, viable |-> {}]
  IN Scan(order, st0, h, currBaseFee, receipt, nonceAt, now)

\* The locals and the state at the end of the head case for header h, when
\* range produces the keys in the given order.
PassResult(order, h, receipt, nonceAt) ==
  LET baseFee == NewBaseFee(h, currBaseFee)
      blocks == Append(blockDataList, BlockData(h, baseFee))
      st0 == [pendingTxs |-> pendingTxs, txTime |-> txTime,
              txInclusionList |-> txInclusionList,
              files |-> saveDataToFile(files, "blockData", blocks),
              saves |-> CountSave(saves, "blockData"),
              blobsIncluded |-> 0, viabletxs |-> 0, viableBlobs |-> 0,
              included |-> {}, replaced |-> {}, viable |-> {}]
  IN Scan(order, st0, h, baseFee, receipt, nonceAt, now)

\* The body of the head case for header h and the node's answers.
HeadPass(h, receipt, nonceAt) ==
  LET baseFee == NewBaseFee(h, currBaseFee)
      blocks == Append(blockDataList, BlockData(h, baseFee))
  IN \E order \in Orders(pendingTxs) :
       LET st == PassResult(order, h, receipt, nonceAt)
       IN /\ currBaseFee' = baseFee
          /\ blockDataList' = blocks
          /\ pendingTxs' = st.pendingTxs
          /\ txTime' = st.txTime
          /\ txInclusionList' = st.txInclusionList
          /\ files' = st.files
          /\ saves' = st.saves
          /\ logIncluded' = logIncluded \cup st.included
          /\ logReplaced' = logReplaced \cup st.replaced
          /\ pass' = [head |-> h.Hash,
                      included |-> st.included,
                      replaced |-> st.replaced,
                      viable |-> st.viable,
                      previousPendingTxs |-> Cardinality(pendingTxs),
                      currentPendingTxs |-> Cardinality(st.pendingTxs),
                      viableTxs |-> st.viabletxs,
                      viableBlobs |-> st.viableBlobs,
                      inclusions |-> Cardinality(pendingTxs)
                                     - Cardinality(st.pendingTxs),
                      blobsIncluded |-> st.blobsIncluded]

\* case h := <-hdrChan
HeadEvent ==
  /\ pc = "select"
  /\ Room
  /\ \E excess \in ExcessBlobGasValues :
       LET h == NewHeader(excess)
       IN \E receipt \in [pendingTxs -> ReceiptAnswers(h)] :
            \E nonceAt \in NonceAnswers({x \in pendingTxs :
                             ~ReceiptInHead(receipt[x], h) /\ ~Sender(x).err}) :
              /\ HeadPass(h, receipt, nonceAt)
              /\ ev' = [kind |-> "head", h |-> h, receipt |-> receipt,
                        nonceAt |-> nonceAt]
  /\ pc' = "iterated"
  /\ UNCHANGED <<now, txDataList, txMetricsList, pSub, hSub>>

\* ------------------------------------------------------- the error signals
\* The in-memory list saved to each file.
ListOf(name) ==
  CASE name = "txData"      -> txDataList
    [] name = "blockData"   -> blockDataList
    [] name = "txMetrics"   -> txMetricsList
    [] name = "txInclusion" -> txInclusionList

\* The four saveDataToFile calls that end both error cases.
SaveAll(fs) ==
  saveDataToFile(
    saveDataToFile(
      saveDataToFile(
        saveDataToFile(fs, "txData", txDataList),
        "blockData", blockDataList),
      "txMetrics", txMetricsList),
    "txInclusion", txInclusionList)

\* An error case without its return: the loop goes back to the select.
ShutdownWithoutReturn(kind) ==
  /\ pc = "select"
  /\ files' = SaveAll(files)
  /\ saves' = [n \in FileNames |-> saves[n] + 1]
  /\ pSub' = "ended"
  /\ hSub' = "ended"
  /\ pc' = "select"
  /\ ev' = [kind |-> kind]
  /\ UNCHANGED <<now, pendingTxs, txTime, currBaseFee, txDataList,
                 blockDataList, txMetricsList, txInclusionList, pass,
                 logIncluded, logReplaced>>

\* The body of an error case: close, unsubscribe, save the four lists, return.
Shutdown(kind) ==
  /\ pc = "select"
  /\ files' = SaveAll(files)
  /\ saves' = [n \in FileNames |-> saves[n] + 1]
  /\ pSub' = "ended"
  /\ hSub' = "ended"
  /\ pc' = "done"
  /\ ev' = [kind |-> kind]
  /\ UNCHANGED <<now, pendingTxs, txTime, currBaseFee, txDataList,
                 blockDataList, txMetricsList, txInclusionList, pass,
                 logIncluded, logReplaced>>

\* case err := <-pSub.Err()
PSubErr == Shutdown("pSubErr")

\* case err := <-hSub.Err()
HSubErr == Shutdown("hSubErr")

\* ------------------------------------------------------------------ the clock
\* The end of a case body: the loop is back at the select and the locals
\* of the iteration are gone.
Loop ==
  /\ pc = "iterated"
  /\ pc' = "select"
  /\ ev' = NoEvent
  /\ pass' = NoPass
  /\ UNCHANGED <<now, pendingTxs, txTime, currBaseFee, txDataList,
                 blockDataList, txMetricsList, txInclusionList, files, saves,
                 pSub, hSub, logIncluded, logReplaced>>

\* Time passes while the loop waits in the select.
Tick ==
  /\ pc = "select"
  /\ now < MaxTime
  /\ now' = now + 1
  /\ UNCHANGED <<pc, pendingTxs, txTime, currBaseFee, txDataList,
                 blockDataList, txMetricsList, txInclusionList, files, saves,
                 pSub, hSub, ev, pass, logIncluded, logReplaced>>

Next ==
  \/ \E hash \in Hashes : TxEvent(hash)
  \/ HeadEvent \/ PSubErr \/ HSubErr \/ Loop \/ Tick

Spec == Init /\ [][Next]_vars

\* ------------------------------------------- fatal errors and later runs
\* The outcomes of a saveDataToFile that ends in log.Fatal: os.Create failed
\* and the file is as it was, or Encode failed after os.Create truncated it.
Partial == [exists |-> TRUE, data |-> [json |-> "partial"]]
FailedSave(fs, name) == {fs, [fs EXCEPT ![name] = Partial]}

\* json.Unmarshal fails on the file's content.
Unreadable(fs, name) == fs[name].exists /\ fs[name].data.json = "partial"

\* log.Fatal: the process exits where it is.
Fatal(kind) ==
  /\ pc' = "fatal"
  /\ ev' = [kind |-> kind]
  /\ pass' = NoPass

\* The tx case with one of its two saves failing.
TxEventSaveFails(hash) ==
  /\ pc = "select"
  /\ IsBlobTx(hash)
  /\ Room
  /\ txTime' = [x \in DOMAIN txTime \cup {hash} |->
                  IF x = hash THEN now ELSE txTime[x]]
  /\ txMetricsList' = recordTxMetrics(txMetricsList, hash, now)
  /\ pendingTxs' = pendingTxs \cup {hash}
  /\ txDataList' = Append(txDataList, txData(hash))
  /\ \/ /\ files' \in FailedSave(files, "txData")
        /\ saves' = CountSave(saves, "txData")
     \/ /\ files' \in FailedSave(saveDataToFile(files, "txData", txDataList'),
                                 "txMetrics")
        /\ saves' = CountSave(CountSave(saves, "txData"), "txMetrics")
  /\ Fatal("saveErr")
  /\ UNCHANGED <<now, currBaseFee, blockDataList, txInclusionList, pSub,
                 hSub, logIncluded, logReplaced>>

\* The head case with the save of blockDataList failing.
HeadEventBlockSaveFails ==
  /\ pc = "select"
  /\ Room
  /\ \E excess \in ExcessBlobGasValues :
       LET h == NewHeader(excess)
       IN /\ currBaseFee' = NewBaseFee(h, currBaseFee)
          /\ blockDataList' = Append(blockDataList,
                                     BlockData(h, currBaseFee'))
  /\ files' \in FailedSave(files, "blockData")
  /\ saves' = CountSave(saves, "blockData")
  /\ Fatal("saveErr")
  /\ UNCHANGED <<now, pendingTxs, txTime, txDataList, txMetricsList,
                 txInclusionList, pSub, hSub, logIncluded, logReplaced>>

\* The head case with a save of txInclusionList failing: the range loop has
\* gone through the keys before x, and x is included.
HeadEventInclusionSaveFails ==
  /\ pc = "select"
  /\ Room
  /\ \E excess \in ExcessBlobGasValues :
       LET h == NewHeader(excess)
       IN \E receipt \in [pendingTxs -> ReceiptAnswers(h)] :
            \E nonceAt \in NonceAnswers({x \in pendingTxs :
                             ~ReceiptInHead(receipt[x], h) /\ ~Sender(x).err}) :
              \E order \in Orders(pendingTxs) :
                \E k \in 1..Len(order) :
                  LET before == PassResult(SubSeq(order, 1, k - 1), h,
                                           receipt, nonceAt)
                      st == Included(before, order[k], now)
                  IN /\ ReceiptInHead(receipt[order[k]], h)
                     /\ currBaseFee' = NewBaseFee(h, currBaseFee)
                     /\ blockDataList' = Append(blockDataList,
                                                BlockData(h, currBaseFee'))
                     /\ pendingTxs' = st.pendingTxs
                     /\ txTime' = st.txTime
                     /\ txInclusionList' = st.txInclusionList
                     /\ files' \in FailedSave(before.files, "txInclusion")
                     /\ saves' = st.saves
                     /\ logIncluded' = logIncluded \cup st.included
                     /\ logReplaced' = logReplaced \cup st.replaced
  /\ Fatal("saveErr")
  /\ UNCHANGED <<now, txDataList, txMetricsList, pSub, hSub>>

\* The files after the first k of the final saves, of the files in names.
RECURSIVE SaveFirst(_, _, _)
SaveFirst(fs, names, k) ==
  IF k = 0 THEN fs
  ELSE SaveFirst(saveDataToFile(fs, Head(names), ListOf(Head(names))),
                 Tail(names), k - 1)

\* The order of the files in the loads at the start and the saves at the end.
FileOrder == <<"txData", "blockData", "txMetrics", "txInclusion">>

\* An error case with one of its four saves failing.
ShutdownSaveFails ==
  /\ pc = "select"
  /\ \E k \in 1..4 :
       /\ files' \in FailedSave(SaveFirst(files, FileOrder, k - 1),
                                FileOrder[k])
       /\ saves' = [n \in FileNames |->
                      IF \E i \in 1..k : FileOrder[i] = n
                      THEN saves[n] + 1 ELSE saves[n]]
  /\ pSub' = "ended"
  /\ hSub' = "ended"
  /\ Fatal("saveErr")
  /\ UNCHANGED <<now, pendingTxs, txTime, currBaseFee, txDataList,
                 blockDataList, txMetricsList, txInclusionList, logIncluded,
                 logReplaced>>

\* Variant: the new process takes over the two maps of the one before.
NewProcessKeepsPending ==
  /\ currBaseFee' = 0
  /\ saves' = [n \in FileNames |-> 0]
  /\ pSub' = "active"
  /\ hSub' = "active"
  /\ logIncluded' = {}
  /\ logReplaced' = {}
  /\ UNCHANGED <<now, files, pendingTxs, txTime>>

\* A new process: empty maps, a zero base fee, two new subscriptions.
NewProcess ==
  /\ currBaseFee' = 0
  /\ pendingTxs' = {}
  /\ txTime' = << >>
  /\ saves' = [n \in FileNames |-> 0]
  /\ pSub' = "active"
  /\ hSub' = "active"
  /\ logIncluded' = {}
  /\ logReplaced' = {}
  /\ UNCHANGED <<now, files>>

\* The program is started again and reaches its loop.
Restart ==
  /\ pc \in {"done", "fatal"}
  /\ \A n \in FileNames : ~Unreadable(files, n)
  /\ NewProcess
  /\ txDataList' = loadDataFromFile(files, "txData")
  /\ blockDataList' = loadDataFromFile(files, "blockData")
  /\ txMetricsList' = loadDataFromFile(files, "txMetrics")
  /\ txInclusionList' = loadDataFromFile(files, "txInclusion")
  /\ pc' = "select"
  /\ ev' = NoEvent
  /\ pass' = NoPass

\* The program is started again and ec.ChainID fails: nothing is loaded.
RestartChainIDFails ==
  /\ pc \in {"done", "fatal"}
  /\ NewProcess
  /\ txDataList' = <<>>
  /\ blockDataList' = <<>>
  /\ txMetricsList' = <<>>
  /\ txInclusionList' = <<>>
  /\ Fatal("chainIDErr")

\* The list loaded from the i-th file when the k-th is the first that
\* cannot be read.
LoadedBefore(i, k) ==
  IF i < k THEN loadDataFromFile(files, FileOrder[i]) ELSE <<>>

\* The program is started again and a file cannot be unmarshalled.
RestartLoadFails ==
  /\ pc \in {"done", "fatal"}
  /\ \E k \in 1..4 :
       /\ Unreadable(files, FileOrder[k])
       /\ \A i \in 1..(k - 1) : ~Unreadable(files, FileOrder[i])
       /\ txDataList' = LoadedBefore(1, k)
       /\ blockDataList' = LoadedBefore(2, k)
       /\ txMetricsList' = LoadedBefore(3, k)
       /\ txInclusionList' = LoadedBefore(4, k)
  /\ NewProcess
  /\ Fatal("loadErr")

NextRuns ==
  \/ Next
  \/ \E hash \in Hashes : TxEventSaveFails(hash)
  \/ HeadEventBlockSaveFails \/ HeadEventInclusionSaveFails
  \/ ShutdownSaveFails
  \/ Restart \/ RestartChainIDFails \/ RestartLoadFails

\* Runs of the program one after the other over the same dataFolder, with
\* the fatal errors of main.
SpecRuns == Init /\ [][NextRuns]_vars

\* Runs of the program one after the other, each ended by an error case.
SpecRestart == Init /\ [][Next \/ Restart]_vars

\* ------------------------------------------------ the error signals, fired
\* A subscription fails: its error is put on its Err() channel, where it
\* stays until the loop receives it.  Events already sent stay receivable.
PSubFails ==
  /\ pc \in {"select", "iterated"}
  /\ pSub = "active"
  /\ pSub' = "failed"
  /\ UNCHANGED <<pc, now, pendingTxs, txTime, currBaseFee, txDataList,
                 blockDataList, txMetricsList, txInclusionList, files, saves,
                 hSub, ev, pass, logIncluded, logReplaced>>

HSubFails ==
  /\ pc \in {"select", "iterated"}
  /\ hSub = "active"
  /\ hSub' = "failed"
  /\ UNCHANGED <<pc, now, pendingTxs, txTime, currBaseFee, txDataList,
                 blockDataList, txMetricsList, txInclusionList, files, saves,
                 pSub, ev, pass, logIncluded, logReplaced>>

\* The error channels are never received from.
ErrReadyNever(kind) == FALSE

\* The receive of an error case can proceed: the error is on the channel.
ErrReady(kind) ==
  IF kind = "pSubErr" THEN pSub = "failed" ELSE hSub = "failed"

\* An error case chosen by the select.
ErrCase(kind) == ErrReady(kind) /\ Shutdown(kind)

NextSignals ==
  \/ \E hash \in Hashes : TxEvent(hash)
  \/ HeadEvent \/ Loop \/ Tick
  \/ PSubFails \/ HSubFails
  \/ ErrCase("pSubErr") \/ ErrCase("hSubErr")

\* The loop with the error signals fired by the subscriptions.  A case body
\* comes to its end, and the select chooses among the ready cases at random,
\* so a case that is ready again and again is chosen in the end.
SpecSignals ==
  /\ Init
  /\ [][NextSignals]_vars
  /\ WF_vars(Loop)
  /\ SF_vars(ErrCase("pSubErr"))
  /\ SF_vars(ErrCase("hSubErr"))

\* ================================================================ the claims
\* Steps of the loop, told apart by the program counter and the event.
TxStep   == pc = "select" /\ pc' = "iterated" /\ ev'.kind = "tx"
HeadStep == pc = "select" /\ pc' = "iterated" /\ ev'.kind = "head"
AfterTx   == pc = "iterated" /\ ev.kind = "tx"
AfterHead == pc = "iterated" /\ ev.kind = "head"

\* The node's answers in the head event e, for pending transaction x.
RcptErr(e, x)   == e.receipt[x].err
RcptHere(e, x)  == ~e.receipt[x].err /\ e.receipt[x].BlockHash = e.h.Hash
NonceSeen(e, x) == x \in DOMAIN e.nonceAt /\ ~e.nonceAt[x].err
NonceFail(e, x) == x \in DOMAIN e.nonceAt /\ e.nonceAt[x].err

RECURSIVE SumBlobs(_)
SumBlobs(S) ==
  IF S = {} THEN 0
  ELSE LET x == CHOOSE y \in S : TRUE
       IN Tx[x].BlobHashes + SumBlobs(S \ {x})

\* The records a step appended to the inclusion list.
AppendedInclusions ==
  SubSeq(txInclusionList', Len(txInclusionList) + 1, Len(txInclusionList'))

\* C1: no hash is at once in the pending set and already logged as included
\* or as replaced.
C1_MutualExclusion ==
  pendingTxs \cap (logIncluded \cup logReplaced) = {}

\* C2: handling a blob transaction whose hash is already pending changes
\* neither the pending set, nor its admission time, nor any of the four
\* lists or files.
C2_DuplicateAdmissionNoOp ==
  [][(TxStep /\ Tx[ev'.hash].Type = BlobTxType /\ ev'.hash \in pendingTxs)
       => UNCHANGED <<pendingTxs, txTime, txDataList, blockDataList,
                      txMetricsList, txInclusionList, files>>]_vars

\* C3: in a head pass, every pending transaction with a receipt in the head's
\* block leaves the pending set, the records appended to the inclusion list
\* are one per such transaction, each with delay = time of the pass minus
\* its admission time, and the pass's blob count is the sum of their blobs.
C3_IncludedRule ==
  [][HeadStep =>
       LET inc == {x \in pendingTxs : RcptHere(ev', x)}
       IN /\ inc \cap pendingTxs' = {}
          /\ \E o \in Orders(inc) :
               AppendedInclusions =
                 [i \in 1 .. Cardinality(inc) |->
                    TxInclusionData(o[i], now - txTime[o[i]])]
          /\ pass'.blobsIncluded = SumBlobs(inc)]_vars

\* C4: in a head pass, a pending transaction with no receipt in the head's
\* block whose sender's nonce at the head is above its own nonce leaves the
\* pending set, is logged neither as included nor as viable, and the records
\* appended to the inclusion list are no more than the transactions that
\* have a receipt in the head's block.
C4_SupersededRule ==
  [][HeadStep =>
       \A x \in pendingTxs :
         (/\ ~RcptHere(ev', x) /\ NonceSeen(ev', x)
          /\ ev'.nonceAt[x].nonce > Tx[x].Nonce)
           => /\ x \notin pendingTxs'
              /\ x \in pass'.replaced
              /\ x \notin pass'.included
              /\ x \notin pass'.viable
              /\ Len(AppendedInclusions)
                   <= Cardinality({y \in pendingTxs : RcptHere(ev', y)})]_vars

C4_Witness ==
  /\ AfterHead
  /\ \E x \in DOMAIN ev.receipt :
       /\ ~RcptHere(ev, x) /\ NonceSeen(ev, x)
       /\ ev.nonceAt[x].nonce > Tx[x].Nonce
       /\ x \in pass.replaced
       /\ x \notin pendingTxs

\* C5 as stated: in a head pass, a pending transaction whose receipt lookup
\* fails is still pending after the pass and is logged neither as included
\* nor as replaced, whatever the sender's nonce is.
C5_ReceiptFailureKeepsPending ==
  [][HeadStep =>
       \A x \in pendingTxs :
         RcptErr(ev', x) => /\ x \in pendingTxs'
                       /\ x \notin pass'.included
                       /\ x \notin pass'.replaced]_vars

\* C5 as amended: in a head pass, a pending transaction whose receipt lookup
\* fails is not logged as included, and it is removed as replaced exactly
\* when the nonce lookup for its sender succeeds with a nonce above its own;
\* otherwise it is still pending after the pass.
C5_ReceiptFailureNotIncluded ==
  [][HeadStep =>
       \A x \in pendingTxs :
         RcptErr(ev', x) =>
           /\ x \notin pass'.included
           /\ IF NonceSeen(ev', x) /\ ev'.nonceAt[x].nonce > Tx[x].Nonce
              THEN x \in pass'.replaced /\ x \notin pendingTxs'
              ELSE x \notin pass'.replaced /\ x \in pendingTxs'
                   /\ txTime'[x] = txTime[x]]_vars

C5_Witness ==
  /\ AfterHead
  /\ \E x \in DOMAIN ev.receipt :
       RcptErr(ev, x) /\ x \in pendingTxs /\ NonceSeen(ev, x)
  /\ \E x \in DOMAIN ev.receipt :
       RcptErr(ev, x) /\ x \notin pendingTxs

\* C6: after a head pass, a transaction that was pending, whose receipt
\* lookup returned an error (no receipt, or a failed call) and whose nonce is
\* below the nonce the node reported for its sender, is not pending.
C6_SupersededPrecedence ==
  AfterHead =>
    \A x \in DOMAIN ev.receipt :
      (/\ RcptErr(ev, x) /\ NonceSeen(ev, x)
       /\ Tx[x].Nonce < ev.nonceAt[x].nonce)
        => x \notin pendingTxs /\ x \notin DOMAIN txTime

C6_Witness ==
  /\ AfterHead
  /\ \E x \in DOMAIN ev.receipt :
       /\ RcptErr(ev, x) /\ NonceSeen(ev, x)
       /\ Tx[x].Nonce < ev.nonceAt[x].nonce
       /\ x \notin pendingTxs

\* C7: in a head pass, a pending transaction with no receipt in the head's
\* block whose sender cannot be recovered, or whose nonce lookup fails, is
\* still pending after the pass with the same admission time, is logged
\* neither as included, replaced nor viable, the records appended to the
\* inclusion list are no more than the transactions with a receipt in the
\* head's block, and txDataList and txMetricsList get no record.
C7_LookupFailureKeepsPending ==
  [][HeadStep =>
       \A x \in pendingTxs :
         (~RcptHere(ev', x) /\ (Tx[x].senderErr \/ NonceFail(ev', x)))
           => /\ x \in pendingTxs'
              /\ x \in DOMAIN txTime' /\ txTime'[x] = txTime[x]
              /\ x \notin pass'.included \cup pass'.replaced \cup pass'.viable
              /\ UNCHANGED <<txDataList, txMetricsList>>
              /\ Len(AppendedInclusions)
                   <= Cardinality({y \in pendingTxs : RcptHere(ev', y)})]_vars

C7_Witness ==
  /\ AfterHead
  /\ \E x, y \in DOMAIN ev.receipt :
       /\ ~RcptHere(ev, x) /\ Tx[x].senderErr /\ x \in pendingTxs
       /\ ~RcptHere(ev, y) /\ NonceFail(ev, y) /\ y \in pendingTxs

\* C8: only blob transactions are ever pending; handling a blob transaction
\* puts its hash in the pending set, and handling any other transaction
\* leaves the pending set, the four lists and the four files as they were
\* and saves no file.
C8_AdmissionFilter ==
  /\ [](\A x \in pendingTxs : Tx[x].Type = BlobTxType)
  /\ [][TxStep =>
          IF Tx[ev'.hash].Type = BlobTxType
          THEN pendingTxs' = pendingTxs \cup {ev'.hash}
          ELSE UNCHANGED <<pendingTxs, txTime, txDataList, blockDataList,
                           txMetricsList, txInclusionList, files, saves>>]_vars

C8_Witness ==
  /\ AfterTx
  /\ Tx[ev.hash].Type # BlobTxType
  /\ pendingTxs # {}
  /\ ev.hash \notin pendingTxs

\* C9: after a head pass, a transaction that was pending, has no receipt in
\* the head's block and whose nonce equals the nonce the node reported for
\* its sender is logged as viable exactly when its blob fee cap is at least
\* the current blob base fee, and is still pending either way; the pass's
\* viable-transaction count is the number of such viable transactions and
\* its viable-blob count the sum of their blob counts.
C9_Viability ==
  AfterHead =>
    LET match == {x \in DOMAIN ev.receipt :
                    ~RcptHere(ev, x) /\ NonceSeen(ev, x)
                    /\ Tx[x].Nonce = ev.nonceAt[x].nonce}
        ok == {x \in match : Tx[x].BlobGasFeeCap >= currBaseFee}
    IN /\ match \subseteq pendingTxs
       /\ pass.viable = ok
       /\ pass.viableTxs = Cardinality(ok)
       /\ pass.viableBlobs = SumBlobs(ok)

C9_Witness ==
  /\ AfterHead
  /\ \E x \in DOMAIN ev.receipt :
       /\ ~RcptHere(ev, x) /\ NonceSeen(ev, x)
       /\ Tx[x].Nonce = ev.nonceAt[x].nonce
       /\ Tx[x].BlobGasFeeCap = currBaseFee
       /\ x \in pass.viable
       /\ pass.viableBlobs = Tx[x].BlobHashes

\* C10: in a head pass, a pending transaction with no receipt in the head's
\* block whose nonce is above the nonce the node reported for its sender is
\* still pending after the pass with the same admission time and is not
\* logged as viable, whatever its blob fee cap.
C10_BlockedRule ==
  [][HeadStep =>
       \A x \in pendingTxs :
         (/\ ~RcptHere(ev', x) /\ NonceSeen(ev', x)
          /\ Tx[x].Nonce > ev'.nonceAt[x].nonce)
           => /\ x \in pendingTxs'
              /\ x \in DOMAIN txTime' /\ txTime'[x] = txTime[x]
              /\ x \notin pass'.viable
              /\ pass'.viableTxs
                   <= Cardinality({y \in pendingTxs : y # x})]_vars

C10_Witness ==
  /\ AfterHead
  /\ \E x \in DOMAIN ev.receipt :
       /\ ~RcptHere(ev, x) /\ NonceSeen(ev, x)
       /\ Tx[x].Nonce > ev.nonceAt[x].nonce
       /\ Tx[x].BlobGasFeeCap >= currBaseFee
       /\ x \in pendingTxs
       /\ pass.viable = {}

\* C11: the "Transaction Inclusions" count logged for a head equals the
\* number of pending transactions the pass classified as included; a
\* transaction removed as superseded does not contribute to it.
C11_NewlyIncludedCount ==
  AfterHead => pass.inclusions = Cardinality(pass.included)

\* The names of the aggregates of a pass.
PassAggregates ==
  {"previousPendingTxs", "currentPendingTxs", "inclusions", "blobsIncluded",
   "viableTxs", "viableBlobs"}

\* C12: every head event appends exactly one record to blockDataList, and
\* that record carries the aggregates of the head's pass (previous pending
\* size, current pending size, newly included transactions, included blobs,
\* viable transactions, viable blobs) as they are at the end of the pass.
C12_BlockRecordCarriesAggregates ==
  [][HeadStep =>
       /\ Len(blockDataList') = Len(blockDataList) + 1
       /\ SubSeq(blockDataList', 1, Len(blockDataList)) = blockDataList
       /\ LET rec == blockDataList'[Len(blockDataList')]
          IN /\ PassAggregates \subseteq DOMAIN rec
             /\ \A f \in PassAggregates : rec[f] = pass'[f]]_vars

\* The records of a list, without their order.
Records(list) == {list[i] : i \in DOMAIN list}

Flushed == \A n \in FileNames : loadDataFromFile(files, n) = ListOf(n)

\* C14: whenever the loop is at its select, waiting for the next event, the
\* content of each of the four files is that of the corresponding in-memory
\* list.
C14_FlushedWhenWaiting ==
  pc = "select" => Flushed

\* The loop is waiting again after an admission and a head pass with an
\* inclusion: all four lists hold records and all four files exist.
C14_Witness ==
  /\ pc = "select"
  /\ saves["txData"] > 0 /\ saves["txInclusion"] > 0
  /\ Len(txDataList) > 0 /\ Len(txMetricsList) > 0
  /\ Len(blockDataList) > 0 /\ Len(txInclusionList) > 0
  /\ \A n \in FileNames : files[n].exists

\* The loop has taken the error case of one of the subscriptions.
ErrorConsumed == ev.kind \in {"pSubErr", "hSubErr"}

AllSaved ==
  \A n \in FileNames :
    files[n] = [exists |-> TRUE, data |-> JSONEncode(ListOf(n))]

\* C16: whatever fatal error ends the process (the error signal of a
\* subscription, a failure to load or to save a list, a failure to get the
\* chain id), when the process has exited both subscriptions are ended and
\* each of the four files holds its in-memory list.
C16_OrderlyShutdownOnFatal ==
  pc \in {"done", "fatal"} =>
    /\ pSub = "ended" /\ hSub = "ended"
    /\ AllSaved

\* a is an initial part of b.
IsPrefix(a, b) == Len(a) <= Len(b) /\ SubSeq(b, 1, Len(a)) = a

\* The program is started again after an error case and is at its loop.
CleanRestart == pc = "done" /\ pc' = "select"

C18_AppendOnly ==
  [][\A n \in FileNames : IsPrefix(ListOf(n), ListOf(n)')]_vars

\* Two admissions and a head pass with an inclusion have appended to lists
\* that already held records.
C18_Witness ==
  /\ Len(txDataList) = 2 /\ Len(txMetricsList) = 2
  /\ Len(blockDataList) = 1 /\ Len(txInclusionList) = 1
  /\ pendingTxs # {}

\* C19: every record of txInclusionList has an inclusion delay of zero or
\* more, whatever the interleaving of admissions, deliveries of an already
\* admitted transaction and head passes, the clock never going back.
C19_NonNegativeDelay ==
  \A i \in DOMAIN txInclusionList : txInclusionList[i].InclusionDelay >= 0

\* A transaction admitted at time 0, delivered again at time 1 and included
\* at time 1: the delay recorded is measured from the second delivery.
C19_Witness ==
  /\ Len(txDataList) = 2
  /\ txDataList[1].TxHash = txDataList[2].TxHash
  /\ Len(txMetricsList) = 2
  /\ txMetricsList[1].TxTime = 0 /\ txMetricsList[2].TxTime = 1
  /\ Len(txInclusionList) = 1
  /\ txInclusionList[1].InclusionDelay = 0
  /\ now = 1

\* C20: currBaseFee is zero when the loop starts; a head pass whose header
\* carries an excess blob gas sets it to CalcBlobFee of that excess, and no
\* other step changes it. So it is zero until the first such head, and from
\* then on CalcBlobFee of the excess of the latest head that carried one.
C20_BlobBaseFeeValue ==
  /\ currBaseFee = 0
  /\ [][IF HeadStep /\ ev'.h.ExcessBlobGas # Nil
        THEN currBaseFee' = CalcBlobFee(ev'.h.ExcessBlobGas)
        ELSE currBaseFee' = currBaseFee]_vars

\* A head without excess blob gas processed after one that carried it: the
\* fee of the earlier head is still the current one.
C20_Witness ==
  /\ AfterHead
  /\ ev.h.ExcessBlobGas = Nil
  /\ currBaseFee = CalcBlobFee(4)
  /\ Len(blockDataList) >= 2

\* C21: the head stream delivering heads in increasing block-number order
\* (as NewHeader does), the block numbers of the records of blockDataList
\* never decrease along the list.
C21_MonotoneBlockNumbers ==
  \A i, j \in DOMAIN blockDataList :
    i <= j => blockDataList[i].BlockNumber <= blockDataList[j].BlockNumber

\* Three heads have been processed in the run.
C21_Witness ==
  /\ saves["blockData"] = 3
  /\ Len(blockDataList) = 3
  /\ blockDataList[1].BlockNumber < blockDataList[2].BlockNumber
  /\ blockDataList[2].BlockNumber < blockDataList[3].BlockNumber

\* C22: when the process has stopped in a saveDataToFile, each of the four
\* files still holds a complete value that its list had at that moment or
\* before: the file can be read and what it holds is an initial part of the
\* list in memory, never a truncated content in place of earlier records.
C22_CrashSafePersistence ==
  (pc = "fatal" /\ ev.kind = "saveErr") =>
    \A n \in FileNames :
      /\ ~Unreadable(files, n)
      /\ IsPrefix(loadDataFromFile(files, n), ListOf(n))

\* C23: a hash leaves pendingTxs only in a head pass, and only when the pass
\* found its receipt in the head's block (included) or saw a nonce for its
\* sender above its own (superseded); a tx case or an error case removes
\* nothing, and an entry that a pass finds blocked, viable or unable to pay
\* the base fee is still pending after it.
C23_RemovalOnlyByClassification ==
  [][/\ pendingTxs \ pendingTxs' # {} => HeadStep
     /\ HeadStep =>
          /\ pendingTxs \ pendingTxs' = pass'.included \cup pass'.replaced
          /\ \A x \in pendingTxs :
               x \notin pendingTxs' <=>
                 \/ RcptHere(ev', x)
                 \/ /\ NonceSeen(ev', x)
                    /\ Tx[x].Nonce < ev'.nonceAt[x].nonce]_vars

\* An entry admitted once is still pending after two head passes, the
\* second of which found it next in nonce order and unable to pay the fee.
C23_Witness ==
  /\ AfterHead
  /\ saves["blockData"] = 2
  /\ Len(txDataList) = 1
  /\ \E x \in pendingTxs :
       /\ ~RcptHere(ev, x) /\ NonceSeen(ev, x)
       /\ Tx[x].Nonce = ev.nonceAt[x].nonce
       /\ Tx[x].BlobGasFeeCap < currBaseFee

\* C24: after the pass of a head that carries an excess blob gas, the record
\* appended for the head holds the fee computed from that excess (as a
\* uint64), and an entry next in nonce order was counted viable exactly when
\* its blob fee cap covers that fee, not the fee of an earlier head.
C24_FeeUpdatedBeforeScan ==
  (AfterHead /\ ev.h.ExcessBlobGas # Nil) =>
    LET fee == CalcBlobFee(ev.h.ExcessBlobGas)
    IN /\ currBaseFee = fee
       /\ blockDataList[Len(blockDataList)].BlockHash = ev.h.Hash
       /\ blockDataList[Len(blockDataList)].BlobBaseFeeWei = Uint64(fee)
       /\ \A x \in DOMAIN ev.receipt :
            (/\ ~RcptHere(ev, x) /\ NonceSeen(ev, x)
             /\ Tx[x].Nonce = ev.nonceAt[x].nonce)
              => (x \in pass.viable <=> Tx[x].BlobGasFeeCap >= fee)

\* The head before left a fee of 6; this head brings it to 1, and an entry
\* with a fee cap below 6 is counted viable.
C24_Witness ==
  /\ AfterHead
  /\ ev.h.ExcessBlobGas = 0
  /\ Len(blockDataList) >= 2
  /\ blockDataList[Len(blockDataList) - 1].BlobBaseFeeWei = CalcBlobFee(4)
  /\ blockDataList[Len(blockDataList)].BlobBaseFeeWei = CalcBlobFee(0)
  /\ \E x \in pass.viable : Tx[x].BlobGasFeeCap < CalcBlobFee(4)

\* C25: currBaseFee changes only in the pass of a head that carries an
\* excess blob gas: a head without one, a tx case and an error case leave it
\* as it is.
C25_BaseFeeFrame ==
  [][currBaseFee' # currBaseFee =>
       HeadStep /\ ev'.h.ExcessBlobGas # Nil]_vars

\* The run has ended in an error case after two heads and an admission, with
\* the fee of excess 4 still current.
C25_Witness ==
  /\ pc = "done"
  /\ ErrorConsumed
  /\ saves["blockData"] = 3
  /\ Len(txDataList) = 1
  /\ currBaseFee = CalcBlobFee(4)

\* C26: the loop handles one event at a time, so nothing is admitted while
\* a head pass runs: the hashes pending at the end of a pass were pending at
\* its start, and the current pending size the pass reports is not above
\* the previous pending size it reports.
C26_OneEventAtATime ==
  AfterHead =>
    /\ pendingTxs \subseteq DOMAIN ev.receipt
    /\ DOMAIN txTime \subseteq DOMAIN ev.receipt
    /\ pass.previousPendingTxs = Cardinality(DOMAIN ev.receipt)
    /\ pass.currentPendingTxs = Cardinality(pendingTxs)
    /\ pass.currentPendingTxs <= pass.previousPendingTxs

\* A pass that started with two entries and ended with one.
C26_Witness ==
  /\ AfterHead
  /\ pass.previousPendingTxs = 2
  /\ pass.currentPendingTxs = 1
  /\ Cardinality(pendingTxs) = 1

\* C27: in a head pass every entry pending at its start goes through the
\* loop body once, whatever other entries the pass removes: it is in the
\* branch its own answers select (included, superseded, viable or none),
\* in no second one, and it is counted once in the counters of the pass.
C27_EachEntryOncePerPass ==
  AfterHead =>
    /\ \A x \in DOMAIN ev.receipt :
         /\ x \in pass.included <=> RcptHere(ev, x)
         /\ x \in pass.replaced <=>
              /\ ~RcptHere(ev, x) /\ NonceSeen(ev, x)
              /\ Tx[x].Nonce < ev.nonceAt[x].nonce
         /\ x \in pass.viable <=>
              /\ ~RcptHere(ev, x) /\ NonceSeen(ev, x)
              /\ Tx[x].Nonce = ev.nonceAt[x].nonce
              /\ Tx[x].BlobGasFeeCap >= currBaseFee
    /\ pass.included \cup pass.replaced \cup pass.viable
         \subseteq DOMAIN ev.receipt
    /\ pass.viableTxs = Cardinality(pass.viable)
    /\ pass.viableBlobs = SumBlobs(pass.viable)
    /\ pass.blobsIncluded = SumBlobs(pass.included)
    /\ pass.inclusions = Cardinality(pass.included \cup pass.replaced)

\* A pass over two entries of one sender: the one with the lower nonce is
\* removed as superseded, the other is counted as viable.
C27_Witness ==
  /\ AfterHead
  /\ Cardinality(DOMAIN ev.receipt) = 2
  /\ Cardinality(pass.replaced) = 1
  /\ Cardinality(pass.viable) = 1
  /\ pass.viableTxs = 1

\* C28: once the error signal of either subscription has fired, the loop
\* ends, even with transaction and head events still to be received or
\* arriving all the time on the other stream (the select being fair among
\* its ready cases).
C28_TerminationAfterStreamError ==
  (pSub = "failed" \/ hSub = "failed") ~> pc = "done"

\* The loop has gone through a head pass while the error of the pending
\* transaction subscription was waiting to be received.
C28_Witness ==
  /\ AfterHead
  /\ pSub = "failed"
  /\ hSub = "active"
  /\ Len(txDataList) > 0

\* C29: every admission of a blob transaction, also of one whose sender
\* cannot be recovered, appends one record to txDataList and one record to
\* txMetricsList, so the two lists grow by the same number of records.
C29_AdmissionLockstep ==
  [][(TxStep /\ IsBlobTx(ev'.hash)) =>
       /\ Len(txDataList') = Len(txDataList) + 1
       /\ Len(txMetricsList') = Len(txMetricsList) + 1]_vars

\* The sum of the BlobCount fields of a list of records.
RECURSIVE SumBlobCount(_)
SumBlobCount(list) ==
  IF list = <<>> THEN 0
  ELSE Head(list).BlobCount + SumBlobCount(Tail(list))

\* C30: in every head pass the blob count logged as included equals the sum
\* of the blob counts of the inclusion records the pass appended, and the
\* pass appended as many inclusion records as it removed transactions as
\* included.
C30_IncludedBlobsMatchRecords ==
  [][HeadStep =>
       /\ pass'.blobsIncluded = SumBlobCount(AppendedInclusions)
       /\ Len(AppendedInclusions) = Cardinality(pass'.included)]_vars

\* ------------------------------------------------- a node with one chain
\* SpecChain runs the same loop against a node whose answers come from one
\* chain: block 1 holds transaction 1 (account X, nonce 0) and transaction 3
\* (whose sender the signer cannot recover), block 2 holds another
\* transaction of X with nonce 1, which replaces transaction 2, and later
\* blocks hold nothing of X.  A lookup can still fail.

\* The number of the block that holds transaction x, 0 when none does.
ChainMined(x) == IF x \in {1, 3} THEN 1 ELSE 0

\* The nonce of account X at the block of the given number.
ChainNonce(number) ==
  IF number = 0 THEN 0 ELSE IF number = 1 THEN 1 ELSE 2

\* What ec.TransactionReceipt returns for a pending hash: an error, or the
\* receipt of the block that holds the transaction.
ChainReceiptAnswers(x) ==
  {ReceiptErr} \cup {[err |-> FALSE, BlockHash |-> b] : b \in {ChainMined(x)} \ {0}}

\* What ec.NonceAtHash returns at head h for the transactions in asked: an
\* error, or the nonce of the account at that block.
ChainNonceAnswers(asked, h) ==
  { [x \in asked |-> IF x \in failed THEN NonceErr
                     ELSE [err |-> FALSE, nonce |-> ChainNonce(h.Number)]]
    : failed \in SUBSET asked }

\* case h := <-hdrChan, with the answers of the one chain
HeadEventChain ==
  /\ pc = "select"
  /\ Room
  /\ \E excess \in ExcessBlobGasValues :
       LET h == NewHeader(excess)
       IN \E receipt \in {f \in [pendingTxs -> ReceiptAnswers(h) \cup
                                   UNION {ChainReceiptAnswers(x) : x \in Hashes}] :
                            \A x \in pendingTxs : f[x] \in ChainReceiptAnswers(x)} :
            \E nonceAt \in ChainNonceAnswers({x \in pendingTxs :
                             ~ReceiptInHead(receipt[x], h) /\ ~Sender(x).err}, h) :
              /\ HeadPass(h, receipt, nonceAt)
              /\ ev' = [kind |-> "head", h |-> h, receipt |-> receipt,
                        nonceAt |-> nonceAt]
  /\ pc' = "iterated"
  /\ UNCHANGED <<now, txDataList, txMetricsList, pSub, hSub>>

NextChain ==
  \/ \E hash \in Hashes : TxEvent(hash)
  \/ HeadEventChain
  \/ PSubErr
  \/ HSubErr
  \/ Loop
  \/ Tick

SpecChain == Init /\ [][NextChain]_vars

\* The pending transactions whose block came before the head of event e.
MinedBefore(e) ==
  {x \in pendingTxs : ChainMined(x) # 0 /\ ChainMined(x) < e.h.Number}

\* C31: a head pass counts a transaction as included, and appends inclusion
\* records, only for transactions whose receipt names the block of that head;
\* a transaction still pending at a head after the block that holds it is
\* not counted as included, gets no inclusion record, and is removed as
\* superseded when its nonce lookup in that pass succeeds.
C31_InclusionOnlyAtIncludingHead ==
  [][HeadStep =>
       /\ pass'.included \subseteq {x \in pendingTxs : RcptHere(ev', x)}
       /\ Len(AppendedInclusions)
            <= Cardinality({x \in pendingTxs : RcptHere(ev', x)})
       /\ \A x \in MinedBefore(ev') :
            /\ x \notin pass'.included
            /\ NonceSeen(ev', x) => x \in pass'.replaced /\ x \notin pendingTxs'
       /\ (pendingTxs # {} /\ pendingTxs = MinedBefore(ev'))
            => txInclusionList' = txInclusionList]_vars

\* Transaction 1 was delivered after the head of block 1 had been processed;
\* at the head of block 2 its receipt names block 1, the nonce lookup
\* succeeds, and the pass removed it as superseded without a record.
C31_Witness ==
  /\ AfterHead
  /\ ev.h.Number = 2
  /\ 1 \in DOMAIN ev.receipt
  /\ ~ev.receipt[1].err
  /\ ev.receipt[1].BlockHash = 1
  /\ NonceSeen(ev, 1)
  /\ 1 \in pass.replaced
  /\ 1 \notin pendingTxs
  /\ txInclusionList = <<>>

\* The nonce of pending transaction x is consumed at head h: the block that
\* holds x is h or an earlier one, or the sender's nonce at h is above the
\* nonce of x.
Consumed(x, h) ==
  \/ ChainMined(x) \in 1 .. h.Number
  \/ ~Sender(x).err /\ ChainNonce(h.Number) > Tx[x].Nonce

\* In the head event e no lookup made for x failed: the receipt lookup
\* returned the receipt when a block holds x, and the nonce lookup, when it
\* was made, returned the nonce.
LookupsSucceed(e, x) ==
  /\ ChainMined(x) # 0 => ~RcptErr(e, x)
  /\ ~NonceFail(e, x)

\* C32: a pending transaction whose nonce is consumed at the head is removed
\* from pendingTxs in every head pass in which the lookups made for it
\* succeed, so it is retired at the first such head.
C32_EventualRetirement ==
  [][HeadStep =>
       \A x \in pendingTxs :
         (Consumed(x, ev'.h) /\ LookupsSucceed(ev', x)) => x \notin pendingTxs']_vars

\* C33: a transaction event removes no entry from pendingTxs and leaves
\* blockDataList, txInclusionList and their files as they were; a head event
\* adds no entry to pendingTxs and leaves txDataList, txMetricsList and
\* their files as they were; a head pass appends inclusion records only for
\* entries it removed as included, so a removal as superseded changes no
\* list.
C33_EventFrames ==
  [][/\ TxStep =>
          /\ pendingTxs \subseteq pendingTxs'
          /\ blockDataList' = blockDataList
          /\ txInclusionList' = txInclusionList
          /\ files'["blockData"] = files["blockData"]
          /\ files'["txInclusion"] = files["txInclusion"]
     /\ HeadStep =>
          /\ pendingTxs' \subseteq pendingTxs
          /\ txDataList' = txDataList
          /\ txMetricsList' = txMetricsList
          /\ files'["txData"] = files["txData"]
          /\ files'["txMetrics"] = files["txMetrics"]
          /\ Len(AppendedInclusions) <= Cardinality(pass'.included)
          /\ pass'.included = {} => /\ txInclusionList' = txInclusionList
                                    /\ files'["txInclusion"] = files["txInclusion"]]_vars

\* A head pass removed transaction 1 as superseded and kept transaction 2;
\* no inclusion record exists.
C33_Witness ==
  /\ AfterHead
  /\ pass.replaced = {1}
  /\ pass.included = {}
  /\ pendingTxs = {2}
  /\ Len(txDataList) = 2
  /\ txInclusionList = <<>>

\* The program is started again and is at its loop.
ProcessStart == pc \in {"done", "fatal"} /\ pc' = "select"

\* C35: at the start of every process pendingTxs and txTime are empty,
\* whatever the four files hold, and a hash enters pendingTxs only in the
\* transaction case that received it: a transaction pending when the previous
\* process ended is pending again only after the stream delivered it again.
C35_PendingNotResumed ==
  /\ pendingTxs = {} /\ DOMAIN txTime = {}
  /\ [][/\ ProcessStart => pendingTxs' = {} /\ DOMAIN txTime' = {}
        /\ \A x \in pendingTxs' \ pendingTxs : TxStep /\ ev'.hash = x]_vars

\* Transaction 1 was pending when the first process ended in an error case;
\* the second process loaded its record, received it again and tracks it.
C35_Witness ==
  /\ AfterTx
  /\ ev.hash = 1
  /\ pendingTxs = {1}
  /\ blockDataList = <<>>
  /\ Len(txDataList) = 2
  /\ txDataList[1] = txDataList[2]
  /\ saves["txData"] = 1

\* C36: whenever the loop waits at its select, the hashes that have an
\* admission time in txTime are the hashes in pendingTxs.
C36_MapsAgree == pc = "select" => DOMAIN txTime = pendingTxs

\* The loop waits again after two admissions and a head pass that removed
\* transaction 1 as included: transaction 2 alone is in both maps.
C36_Witness ==
  /\ pc = "select"
  /\ logIncluded = {1}
  /\ pendingTxs = {2}
  /\ DOMAIN txTime = {2}

\* ------------------------------------------------ fees beyond the field
\* SpecFees adds to the loop the heads whose excess blob gas gives a fee
\* that the uint64 field of BlockData cannot hold.
MaxExcessBlobGas == 6
LargeExcessBlobGasValues ==
  {e \in 0 .. MaxExcessBlobGas : CalcBlobFee(e) >= 2 ^ UintBits}

\* case h := <-hdrChan, for a head with such an excess blob gas
HeadEventLargeExcess ==
  /\ pc = "select"
  /\ Room
  /\ \E excess \in LargeExcessBlobGasValues :
       LET h == NewHeader(excess)
       IN \E receipt \in [pendingTxs -> ReceiptAnswers(h)] :
            \E nonceAt \in NonceAnswers({x \in pendingTxs :
                             ~ReceiptInHead(receipt[x], h) /\ ~Sender(x).err}) :
              /\ HeadPass(h, receipt, nonceAt)
              /\ ev' = [kind |-> "head", h |-> h, receipt |-> receipt,
                        nonceAt |-> nonceAt]
  /\ pc' = "iterated"
  /\ UNCHANGED <<now, txDataList, txMetricsList, pSub, hSub>>

NextFees ==
  \/ Next
  \/ HeadEventLargeExcess

SpecFees == Init /\ [][NextFees]_vars

\* C37: after every head event the BlobBaseFeeWei of the record the event
\* appended to blockDataList equals currBaseFee, also when the fee computed
\* from the head's excess blob gas is beyond the range of the field.
C37_RecordedFeeFits ==
  AfterHead =>
    blockDataList[Len(blockDataList)].BlobBaseFeeWei = currBaseFee

\* ------------------------------------------- the error case, step by step
\* SpecShutdown takes the statements of an error case one at a time and lets
\* the goroutine of each subscription run between them.  That goroutine
\* forwards the notifications of the connection to the channel given to
\* Subscribe*: a subscription is "active" when it has nothing to send,
\* "sending" when it is at a send on the channel (blocked there when the
\* buffer is full), "failed" when it has returned and put its error on
\* Err(), "quit" when the client has stopped it, "ended" after Unsubscribe.
Subs == {"p", "h"}

SubState(s) == IF s = "p" THEN pSub ELSE hSub

SetSub(s, v) ==
  IF s = "p" THEN pSub' = v /\ UNCHANGED hSub
  ELSE hSub' = v /\ UNCHANGED pSub

\* The connection is open: ec.Close() has not been called.
ConnOpen == pc \in {"select", "iterated", "errCase"}

\* close(txChan) or close(hdrChan) has been executed.
ChanClosed(s) ==
  IF s = "p" THEN pc \in {"txChanClosed", "hdrChanClosed", "unsubscribed", "done"}
  ELSE pc \in {"hdrChanClosed", "unsubscribed", "done"}

\* A notification of the subscription arrives from the connection.
Arrive(s) ==
  /\ ConnOpen
  /\ SubState(s) = "active"
  /\ SetSub(s, "sending")
  /\ UNCHANGED <<pc, now, pendingTxs, txTime, currBaseFee, txDataList,
                 blockDataList, txMetricsList, txInclusionList, files, saves,
                 ev, pass, logIncluded, logReplaced>>

\* The send on txChan or hdrChan; on a closed channel it panics.
Send(s) ==
  /\ pc \notin {"done", "panic"}
  /\ SubState(s) = "sending"
  /\ IF ChanClosed(s) THEN pc' = "panic" /\ UNCHANGED <<pSub, hSub>>
     ELSE SetSub(s, "active") /\ UNCHANGED pc
  /\ UNCHANGED <<now, pendingTxs, txTime, currBaseFee, txDataList,
                 blockDataList, txMetricsList, txInclusionList, files, saves,
                 ev, pass, logIncluded, logReplaced>>

\* The subscription fails: its goroutine returns and puts the error on Err().
ForwardFails(s) ==
  /\ pc \in {"select", "iterated"}
  /\ SubState(s) \in {"active", "sending"}
  /\ SetSub(s, "failed")
  /\ UNCHANGED <<pc, now, pendingTxs, txTime, currBaseFee, txDataList,
                 blockDataList, txMetricsList, txInclusionList, files, saves,
                 ev, pass, logIncluded, logReplaced>>

\* case err := <-pSub.Err() or case err := <-hSub.Err(): the error is logged.
BeginErrCase(kind) ==
  /\ pc = "select"
  /\ ErrReady(kind)
  /\ pc' = "errCase"
  /\ ev' = [kind |-> kind]
  /\ UNCHANGED <<now, pendingTxs, txTime, currBaseFee, txDataList,
                 blockDataList, txMetricsList, txInclusionList, files, saves,
                 pSub, hSub, pass, logIncluded, logReplaced>>

\* Variant: Close returns while the goroutines of the subscriptions run on.
ClientCloseDoesNotWait ==
  /\ pc = "errCase"
  /\ pc' = "closed"
  /\ UNCHANGED <<now, pendingTxs, txTime, currBaseFee, txDataList,
                 blockDataList, txMetricsList, txInclusionList, files, saves,
                 pSub, hSub, ev, pass, logIncluded, logReplaced>>

\* What Close makes of a subscription: it hands the quit signal to the
\* goroutine of every subscription still running and returns when each has
\* taken it and left its loop.
Quit(v) == IF v \in {"active", "sending"} THEN "quit" ELSE v

\* ec.Close(); client.Close(): one client, closed by the first call.
ClientClose ==
  /\ pc = "errCase"
  /\ pc' = "closed"
  /\ pSub' = Quit(pSub)
  /\ hSub' = Quit(hSub)
  /\ UNCHANGED <<now, pendingTxs, txTime, currBaseFee, txDataList,
                 blockDataList, txMetricsList, txInclusionList, files, saves,
                 ev, pass, logIncluded, logReplaced>>

\* close(txChan)
CloseTxChan ==
  /\ pc = "closed"
  /\ pc' = "txChanClosed"
  /\ UNCHANGED <<now, pendingTxs, txTime, currBaseFee, txDataList,
                 blockDataList, txMetricsList, txInclusionList, files, saves,
                 pSub, hSub, ev, pass, logIncluded, logReplaced>>

\* close(hdrChan)
CloseHdrChan ==
  /\ pc = "txChanClosed"
  /\ pc' = "hdrChanClosed"
  /\ UNCHANGED <<now, pendingTxs, txTime, currBaseFee, txDataList,
                 blockDataList, txMetricsList, txInclusionList, files, saves,
                 pSub, hSub, ev, pass, logIncluded, logReplaced>>

\* hSub.Unsubscribe() in the pSub case, pSub.Unsubscribe() in the hSub case
UnsubscribeOther ==
  /\ pc = "hdrChanClosed"
  /\ pc' = "unsubscribed"
  /\ SetSub(IF ev.kind = "pSubErr" THEN "h" ELSE "p", "ended")
  /\ UNCHANGED <<now, pendingTxs, txTime, currBaseFee, txDataList,
                 blockDataList, txMetricsList, txInclusionList, files, saves,
                 ev, pass, logIncluded, logReplaced>>

\* The four saves and the return.
FinalFlush ==
  /\ pc = "unsubscribed"
  /\ files' = SaveAll(files)
  /\ saves' = [n \in FileNames |-> saves[n] + 1]
  /\ pc' = "done"
  /\ UNCHANGED <<now, pendingTxs, txTime, currBaseFee, txDataList,
                 blockDataList, txMetricsList, txInclusionList, pSub, hSub,
                 ev, pass, logIncluded, logReplaced>>

NextShutdown ==
  \/ \E hash \in Hashes : TxEvent(hash)
  \/ HeadEvent
  \/ Loop
  \/ \E s \in Subs : Arrive(s)
  \/ \E s \in Subs : Send(s)
  \/ \E s \in Subs : ForwardFails(s)
  \/ BeginErrCase("pSubErr")
  \/ BeginErrCase("hSubErr")
  \/ ClientClose
  \/ CloseTxChan
  \/ CloseHdrChan
  \/ UnsubscribeOther
  \/ FinalFlush

SpecShutdown == Init /\ [][NextShutdown]_vars

\* C34: no send reaches a closed channel, and from close(txChan) or
\* close(hdrChan) on, up to the return after the saves, the subscription of
\* that channel has no goroutine left that could send on it.
C34_NoSendOnClosedChannel ==
  /\ pc # "panic"
  /\ \A s \in Subs : ChanClosed(s) => SubState(s) \notin {"active", "sending"}

\* The pending-transaction subscription failed while the head subscription
\* was still running; Close stopped it, both channels are closed, the other
\* subscription is unsubscribed and the four lists are saved.
C34_Witness ==
  /\ pc = "done"
  /\ ev.kind = "pSubErr"
  /\ pSub = "failed"
  /\ hSub = "ended"
  /\ saves["txData"] = 2
  /\ Len(blockDataList) > 0

====
